---- MODULE Spec2Model ----
(***************************************************************************)
(* A model of the flat-file table store: one database directory, one table *)
(* (a schema file and an entries file), and the operations of              *)
(* src/src/database.rs and src/src/table.rs on them.  File contents are    *)
(* modelled by the values serde_json reads back from them; a panic is the  *)
(* result "Panic" of a call that wrote nothing.  Spec has every operation  *)
(* run to its end without I/O error; SpecIo adds the I/O errors of create  *)
(* and drop that leave one of the two files of the table; SpecDb has two   *)
(* databases and the file curr_db; SpecMatch applies select and delete to  *)
(* tables that exercise match_query; SpecRace runs insert in two processes *)
(* read by read and write by write; SpecCrash runs add_col write by write  *)
(* and lets it be stopped between the writes.                              *)
(***************************************************************************)
EXTENDS Integers, Sequences, FiniteSets

(* ------------------------------ bounds -------------------------------- *)

\* most rows in one insert batch
MaxRows == 2
\* most entries the entries file holds (insert is not offered beyond it)
MaxEntries == 2

(* ----------------------------- universes ------------------------------ *)

ColNames == {"a", "b"}
DataTypes == {"Text", "Integer"}
Operators == {"Eq", "NotEq", "Gt", "Lt", "GtEq", "LtEq"}

\* the schema file and the entries file when they are not on disk
NoSchema == [present |-> FALSE, cols |-> <<>>, types |-> <<>>]
NoTable == [present |-> FALSE, entries |-> <<>>]
\* the files on disk, holding a Schema and a TableEntries value
SchemaOf(cols, types) == [present |-> TRUE, cols |-> cols, types |-> types]
TableOf(entries) == [present |-> TRUE, entries |-> entries]
\* Option<Condition>: None, Some(Condition {key, value, operator})
None == [some |-> FALSE, key |-> "", operator |-> "", value |-> ""]
Some(k, o, v) == [some |-> TRUE, key |-> k, operator |-> o, value |-> v]
\* SelectCols: All, Cols(list)
All == [all |-> TRUE, list |-> <<>>]
Cols(list) == [all |-> FALSE, list |-> list]

SeqsUpTo(S, n) == UNION {[1..k -> S] : k \in 0..n}

(* --------------------- strings (Rust String / str) -------------------- *)

\* the UTF-8 bytes of the strings of the model
Bytes(s) ==
  CASE s = "" -> <<>>
    [] s = "0" -> <<48>>
    [] s = "1" -> <<49>>
    [] s = "10" -> <<49, 48>>
    [] s = "9" -> <<57>>
    [] s = "x" -> <<120>>
    [] s = "a" -> <<97>>
    [] s = "b" -> <<98>>
    [] s = " a" -> <<32, 97>>

RECURSIVE LexLess(_, _)
\* Ord for str: lexicographic on bytes, a proper prefix is smaller
LexLess(x, y) ==
  IF y = <<>> THEN FALSE
  ELSE IF x = <<>> THEN TRUE
  ELSE IF Head(x) # Head(y) THEN Head(x) < Head(y)
  ELSE LexLess(Tail(x), Tail(y))

StrLt(v, w) == LexLess(Bytes(v), Bytes(w))

\* str::trim on the names of the model
trim(s) == IF s = " a" THEN "a" ELSE s

(* ------------------ HashMap<String, String> entries -------------------- *)
\* an entry is a set of <<key, value>> pairs with distinct keys

EmptyMap == {}
Keys(e) == {p[1] : p \in e}
contains_key(e, k) == k \in Keys(e)
get(e, k) == (CHOOSE p \in e : p[1] = k)[2]
map_insert(e, k, v) == {p \in e : p[1] # k} \cup {<<k, v>>}

(* --------------------------- DataType --------------------------------- *)

\* DataType::is_valid: Ok for a value the type accepts, a type error otherwise
is_valid(t, v) ==
  CASE t = "Text" -> TRUE
    [] t = "Integer" -> v \in {"0", "1", "9", "10"}

\* DataType::default: the canonical value a new column is filled with
default(t) ==
  CASE t = "Text" -> ""
    [] t = "Integer" -> "0"

(* ------------------------------ state --------------------------------- *)

\* the name of the database that holds the table, and of a second database
DbName == "db"
OtherName == "other"
\* the file curr_db when it is not on disk, and when it holds a name
NoPointer == [present |-> FALSE, name |-> ""]
PointerTo(name) == [present |-> TRUE, name |-> name]

\* the processes that may run an operation step by step
Procs == {1, 2}
\* a process that runs no operation
Idle ==
  [pc |-> "idle", op |-> "", col |-> "", dtype |-> "", rows |-> <<>>,
   schema |-> NoSchema, new_entries |-> <<>>, all_entries |-> <<>>, res |-> ""]

VARIABLES
  dbDir,       \* whether the database's directory exists
  schemaFile,  \* <table>.schema.json: NoSchema, or the Schema {cols, types} in it
  tableFile,   \* <table>.json: NoTable, or the entry sequence in it
  call,        \* the last call: operation, arguments, result, files written,
               \* the row an error names, the number of entries before it,
               \* whether an entry held another value of the column added
  dropped,     \* history: the table was dropped and not created since
  otherDir,    \* whether the directory of the second database exists
  currDb,      \* the file curr_db: NoPointer, or the name in it
  procs        \* per process, the operation it is in the middle of

vars == <<dbDir, schemaFile, tableFile, call, dropped, otherDir, currDb, procs>>

\* the record of a call; an operation fills in the arguments it has
Call(op, res, writes) ==
  [op |-> op, res |-> res, writes |-> writes,
   cols |-> All, types |-> <<>>, rows |-> <<>>, cond |-> None,
   col |-> "", dtype |-> "", ret |-> <<>>, row |-> 0, n |-> 0,
   name |-> "", stale |-> FALSE, proc |-> 0]

Init ==
  /\ dbDir = FALSE
  /\ schemaFile = NoSchema
  /\ tableFile = NoTable
  /\ call = Call("start", "Ok", {})
  /\ dropped = FALSE
  /\ otherDir = FALSE
  /\ currDb = NoPointer
  /\ procs = [p \in Procs |-> Idle]

(* ----------------------------- Database ------------------------------- *)

\* Database::exists
exists(dir) == dir

\* Database::exists_or_err
Database_exists_or_err(dir) == IF ~exists(dir) THEN "NotFound" ELSE "Ok"

\* Database::new
Database_new ==
  IF dbDir
  THEN /\ call' = Call("Database::new", "DuplicatedDB", {})
       /\ UNCHANGED <<dbDir, schemaFile, tableFile, dropped, otherDir, currDb, procs>>
  ELSE /\ dbDir' = TRUE
       /\ call' = Call("Database::new", "Ok", {"dir"})
       /\ UNCHANGED <<schemaFile, tableFile, dropped, otherDir, currDb, procs>>

\* Database::drop that removes the directory with the files in it
Database_drop_recursive ==
  IF ~dbDir
  THEN /\ call' = Call("Database::drop", "NotFound", {})
       /\ UNCHANGED <<dbDir, schemaFile, tableFile, dropped, otherDir, currDb, procs>>
  ELSE /\ dbDir' = FALSE
       /\ schemaFile' = NoSchema
       /\ tableFile' = NoTable
       /\ call' = Call("Database::drop", "Ok", {"dir"})
       /\ UNCHANGED <<dropped, otherDir, currDb, procs>>

\* Database::drop; fs::remove_dir fails on a directory that holds a file
Database_drop ==
  IF ~dbDir
  THEN /\ call' = Call("Database::drop", "NotFound", {})
       /\ UNCHANGED <<dbDir, schemaFile, tableFile, dropped, otherDir, currDb, procs>>
  ELSE IF schemaFile.present \/ tableFile.present
  THEN /\ call' = Call("Database::drop", "IoError", {})
       /\ UNCHANGED <<dbDir, schemaFile, tableFile, dropped, otherDir, currDb, procs>>
  ELSE /\ dbDir' = FALSE
       /\ call' = Call("Database::drop", "Ok", {"dir"})
       /\ UNCHANGED <<schemaFile, tableFile, dropped, otherDir, currDb, procs>>

\* Database::new and Database::drop of the second database, which holds no table
Database_new_other ==
  IF otherDir
  THEN /\ call' = [Call("Database::new", "DuplicatedDB", {}) EXCEPT !.name = OtherName]
       /\ UNCHANGED <<dbDir, schemaFile, tableFile, dropped, otherDir, currDb, procs>>
  ELSE /\ otherDir' = TRUE
       /\ call' = [Call("Database::new", "Ok", {"dir"}) EXCEPT !.name = OtherName]
       /\ UNCHANGED <<dbDir, schemaFile, tableFile, dropped, currDb, procs>>

Database_drop_other ==
  IF ~otherDir
  THEN /\ call' = [Call("Database::drop", "NotFound", {}) EXCEPT !.name = OtherName]
       /\ UNCHANGED <<dbDir, schemaFile, tableFile, dropped, otherDir, currDb, procs>>
  ELSE /\ otherDir' = FALSE
       /\ call' = [Call("Database::drop", "Ok", {"dir"}) EXCEPT !.name = OtherName]
       /\ UNCHANGED <<dbDir, schemaFile, tableFile, dropped, currDb, procs>>

\* the names a caller may hand to use_db
DbNames == {DbName, OtherName}

\* whether the directory of a database exists, given the two directories
dir_of(name, dir, other) == IF name = DbName THEN dir ELSE other

\* use_db that writes the name without asking whether the database exists
use_db_unchecked(name, curr, dir, other) ==
  [res |-> "Ok", curr |-> PointerTo(name), writes |-> {"curr_db"}]

\* Database::use_db: the result and the file curr_db after it
use_db(name, curr, dir, other) ==
  IF Database_exists_or_err(dir_of(name, dir, other)) # "Ok"
  THEN [res |-> "NotFound", curr |-> curr, writes |-> {}]
  ELSE [res |-> "Ok", curr |-> PointerTo(name), writes |-> {"curr_db"}]

\* Database::get_curr_db: the result and the name returned with Ok;
\* fs::read_to_string fails on a file that was never written
get_curr_db(curr, dir, other) ==
  IF ~curr.present THEN [res |-> "IoError", name |-> ""]
  ELSE IF Database_exists_or_err(dir_of(curr.name, dir, other)) # "Ok"
  THEN [res |-> "NotFound", name |-> ""]
  ELSE [res |-> "Ok", name |-> curr.name]

Database_use_db ==
  \E name \in DbNames :
    \E r \in {use_db(name, currDb, dbDir, otherDir)} :
      /\ currDb' = r.curr
      /\ call' = [Call("use_db", r.res, r.writes) EXCEPT !.name = name]
      /\ UNCHANGED <<dbDir, schemaFile, tableFile, dropped, otherDir, procs>>

Database_get_curr_db ==
  \E r \in {get_curr_db(currDb, dbDir, otherDir)} :
    /\ call' = [Call("get_curr_db", r.res, {}) EXCEPT !.name = r.name]
    /\ UNCHANGED <<dbDir, schemaFile, tableFile, dropped, otherDir, currDb, procs>>

(* ------------------------------- Table -------------------------------- *)

\* what a call leaves behind: its result, the two files, the files it wrote
Out(res, sf, tf, writes) ==
  [res |-> res, sf |-> sf, tf |-> tf, writes |-> writes, row |-> 0]
\* an error return (or a panic) before any write
Fail(res, sf, tf) == Out(res, sf, tf, {})

\* Table::exist
exist(sf, tf) == sf.present /\ tf.present

\* exists_or_err that does not ask the database
exists_or_err_table_only(dir, sf, tf) ==
  IF ~exist(sf, tf) THEN "TableNotFond" ELSE "Ok"

\* Table::exists_or_err
exists_or_err(dir, sf, tf) ==
  IF Database_exists_or_err(dir) # "Ok" THEN "DBErr"
  ELSE IF ~exist(sf, tf) THEN "TableNotFond"
  ELSE "Ok"

\* Table::get_col_pos, and Iterator::position: the first index (from 1) of the
\* column in the list, 0 for None
get_col_pos(cols, c) ==
  IF \E i \in 1..Len(cols) : cols[i] = c
  THEN CHOOSE i \in 1..Len(cols) : cols[i] = c /\ \A j \in 1..(i - 1) : cols[j] # c
  ELSE 0

\* Table::col_exist
col_exist(schema, c) == get_col_pos(schema.cols, c) # 0

\* Table::new
new(dir) == IF Database_exists_or_err(dir) # "Ok" THEN "DBErr" ELSE "Ok"

\* create that leaves the entries file of an existing table as it is
create_keeps_entries(dir, sf, tf, cols, types) ==
  IF Database_exists_or_err(dir) # "Ok" THEN Fail("DBErr", sf, tf)
  ELSE Out("Ok", SchemaOf(cols, types), IF tf.present THEN tf ELSE TableOf(<<>>),
           {"schema", "entries"})

\* Table::create
create(dir, sf, tf, cols, types) ==
  IF Database_exists_or_err(dir) # "Ok" THEN Fail("DBErr", sf, tf)
  ELSE Out("Ok", SchemaOf(cols, types), TableOf(<<>>), {"schema", "entries"})

\* Table::create when the entries file is not there and cannot be written: the
\* schema file is written, the entries file is still missing
create_io_error(dir, sf, tf, cols, types) ==
  IF Database_exists_or_err(dir) # "Ok" THEN Fail("DBErr", sf, tf)
  ELSE Out("IoErr", SchemaOf(cols, types), tf, {"schema"})

\* insert: the column list a SelectCols resolves to
resolve_cols(schema, cols) == IF cols.all THEN schema.cols ELSE cols.list

RECURSIVE col_type_map(_, _, _)
\* insert: the loop over the resolved columns, from column i on; the first
\* column that has no position, or no type at its position, ends it
col_type_map(schema, cols, i) ==
  IF i > Len(cols) THEN "Ok"
  ELSE LET col_pos == get_col_pos(schema.cols, cols[i])
       IN IF col_pos = 0 THEN "ColNotFound"
          ELSE IF col_pos > Len(schema.types) THEN "ColTypeNotFound"
          ELSE col_type_map(schema, cols, i + 1)

\* insert: col_type_map[col], the type at the column's position
col_type(schema, col) == schema.types[get_col_pos(schema.cols, col)]

RECURSIVE zip_row(_, _, _, _, _)
\* insert: the loop over cols.iter().zip(row), from pair j on, building map
zip_row(schema, cols, row, j, map) ==
  IF j > Len(cols) THEN [res |-> "Ok", map |-> map]
  ELSE IF ~is_valid(col_type(schema, cols[j]), row[j])
  THEN [res |-> "TypeErr", map |-> map]
  ELSE zip_row(schema, cols, row, j + 1, map_insert(map, cols[j], row[j]))

RECURSIVE new_entries(_, _, _, _, _)
\* insert: the loop over the rows, from row idx on; acc holds the entries built
\* so far, row is the row that failed (from 1)
new_entries(schema, cols, values, idx, acc) ==
  IF idx > Len(values) THEN [res |-> "Ok", row |-> 0, entries |-> acc]
  ELSE IF Len(values[idx]) # Len(cols)
  THEN [res |-> "NumberMismatch", row |-> idx, entries |-> acc]
  ELSE LET z == zip_row(schema, cols, values[idx], 1, EmptyMap)
       IN IF z.res # "Ok" THEN [res |-> z.res, row |-> idx, entries |-> acc]
          ELSE new_entries(schema, cols, values, idx + 1, Append(acc, z.map))

\* insert that writes the rows it has built when a later row fails
insert_partial_write(dir, sf, tf, cols, values) ==
  IF exists_or_err(dir, sf, tf) # "Ok" THEN Fail(exists_or_err(dir, sf, tf), sf, tf)
  ELSE LET resolved == resolve_cols(sf, cols)
           checked == col_type_map(sf, resolved, 1)
           built == new_entries(sf, resolved, values, 1, <<>>)
       IN IF checked # "Ok" THEN Fail(checked, sf, tf)
          ELSE [Out(built.res, sf, TableOf(tf.entries \o built.entries), {"entries"})
                  EXCEPT !.row = built.row]

\* insert that puts the new entries before the old ones
insert_prepend(dir, sf, tf, cols, values) ==
  IF exists_or_err(dir, sf, tf) # "Ok" THEN Fail(exists_or_err(dir, sf, tf), sf, tf)
  ELSE LET resolved == resolve_cols(sf, cols)
           checked == col_type_map(sf, resolved, 1)
           built == new_entries(sf, resolved, values, 1, <<>>)
       IN IF checked # "Ok" THEN Fail(checked, sf, tf)
          ELSE IF built.res # "Ok" THEN [Fail(built.res, sf, tf) EXCEPT !.row = built.row]
          ELSE Out("Ok", sf, TableOf(built.entries \o tf.entries), {"entries"})

\* Table::insert; a row's error names the row (from 1)
insert(dir, sf, tf, cols, values) ==
  IF Database_exists_or_err(dir) # "Ok" THEN Fail("DBErr", sf, tf)
  ELSE IF exists_or_err(dir, sf, tf) # "Ok" THEN Fail(exists_or_err(dir, sf, tf), sf, tf)
  ELSE LET resolved == resolve_cols(sf, cols)
           checked == col_type_map(sf, resolved, 1)
           built == new_entries(sf, resolved, values, 1, <<>>)
       IN IF checked # "Ok" THEN Fail(checked, sf, tf)
          ELSE IF built.res # "Ok" THEN [Fail(built.res, sf, tf) EXCEPT !.row = built.row]
          ELSE Out("Ok", sf, TableOf(tf.entries \o built.entries), {"entries"})

\* match_query under which an entry that lacks the key matches NotEq
match_query_absent_is_unequal(condition, entry) ==
  IF ~condition.some THEN TRUE
  ELSE IF ~contains_key(entry, condition.key) THEN condition.operator = "NotEq"
  ELSE LET v == get(entry, condition.key)
           value == condition.value
       IN CASE condition.operator = "Eq" -> v = value
            [] condition.operator = "NotEq" -> v # value
            [] condition.operator = "Gt" -> StrLt(value, v)
            [] condition.operator = "Lt" -> StrLt(v, value)
            [] condition.operator = "GtEq" -> ~StrLt(v, value)
            [] condition.operator = "LtEq" -> ~StrLt(value, v)

\* Table::match_query
match_query(condition, entry) ==
  IF ~condition.some THEN TRUE
  ELSE IF ~contains_key(entry, condition.key) THEN FALSE
  ELSE LET v == get(entry, condition.key)
           value == condition.value
       IN CASE condition.operator = "Eq" -> v = value
            [] condition.operator = "NotEq" -> v # value
            [] condition.operator = "Gt" -> StrLt(value, v)
            [] condition.operator = "Lt" -> StrLt(v, value)
            [] condition.operator = "GtEq" -> ~StrLt(v, value)
            [] condition.operator = "LtEq" -> ~StrLt(value, v)

\* select: the entries Iterator::filter keeps, those that match the condition
matching_entries(entries, condition) ==
  SelectSeq(entries, LAMBDA e : match_query(condition, e))

\* delete: the entries Iterator::filter keeps, those that do not match
retained_entries(entries, condition) ==
  SelectSeq(entries, LAMBDA e : ~match_query(condition, e))

RECURSIVE project(_, _, _, _)
\* select: the for_each over the selected columns, from column j on;
\* entry.get(col.trim()).unwrap() panics on a key the entry lacks
project(selectd_cols, entry, j, map) ==
  IF j > Len(selectd_cols) THEN [res |-> "Ok", map |-> map]
  ELSE IF ~contains_key(entry, trim(selectd_cols[j])) THEN [res |-> "Panic", map |-> map]
  ELSE project(selectd_cols, entry, j + 1,
               map_insert(map, selectd_cols[j], get(entry, trim(selectd_cols[j]))))

\* select: the closure of map, on one matching entry
select_entry(cols, entry) ==
  IF cols.all THEN [res |-> "Ok", map |-> entry]
  ELSE project(cols.list, entry, 1, EmptyMap)

\* Table::select: the result, and the entries returned with Ok
select(dir, sf, tf, cols, condition) ==
  IF exists_or_err(dir, sf, tf) # "Ok"
  THEN [res |-> exists_or_err(dir, sf, tf), ret |-> <<>>]
  ELSE LET matching == matching_entries(tf.entries, condition)
       IN IF \E i \in 1..Len(matching) : select_entry(cols, matching[i]).res = "Panic"
          THEN [res |-> "Panic", ret |-> <<>>]
          ELSE [res |-> "Ok",
                ret |-> [i \in 1..Len(matching) |-> select_entry(cols, matching[i]).map]]

\* delete that keeps the matching entries instead of the others
delete_keeps_matching(dir, sf, tf, condition) ==
  IF exists_or_err(dir, sf, tf) # "Ok" THEN Fail(exists_or_err(dir, sf, tf), sf, tf)
  ELSE Out("Ok", sf, TableOf(matching_entries(tf.entries, condition)), {"entries"})

\* Table::delete
delete(dir, sf, tf, condition) ==
  IF exists_or_err(dir, sf, tf) # "Ok" THEN Fail(exists_or_err(dir, sf, tf), sf, tf)
  ELSE Out("Ok", sf, TableOf(retained_entries(tf.entries, condition)), {"entries"})

\* alter that appends a column it does not find, without touching the entries
alter_upserts(dir, sf, tf, col_name, datatype) ==
  IF exists_or_err(dir, sf, tf) # "Ok" THEN Fail(exists_or_err(dir, sf, tf), sf, tf)
  ELSE LET p == get_col_pos(sf.cols, col_name)
       IN IF p = 0
          THEN Out("Ok", SchemaOf(Append(sf.cols, col_name), Append(sf.types, datatype)), tf,
                   {"schema"})
          ELSE IF p > Len(sf.types) THEN Fail("ColTypeNotFound", sf, tf)
          ELSE Out("Ok", SchemaOf(sf.cols, [sf.types EXCEPT ![p] = datatype]), tf,
                   {"schema"})

\* Table::alter
alter(dir, sf, tf, col_name, datatype) ==
  IF exists_or_err(dir, sf, tf) # "Ok" THEN Fail(exists_or_err(dir, sf, tf), sf, tf)
  ELSE LET p == get_col_pos(sf.cols, col_name)
       IN IF p = 0 THEN Fail("ColNotFound", sf, tf)
          ELSE IF p > Len(sf.types) THEN Fail("ColTypeNotFound", sf, tf)
          ELSE Out("Ok", SchemaOf(sf.cols, [sf.types EXCEPT ![p] = datatype]), tf,
                   {"schema"})

\* Table::drop
drop(dir, sf, tf) ==
  IF exists_or_err(dir, sf, tf) # "Ok" THEN Fail(exists_or_err(dir, sf, tf), sf, tf)
  ELSE Out("Ok", NoSchema, NoTable, {"schema", "entries"})

\* Table::drop when the removal of the entries file fails: the schema file is
\* gone, the entries file is as it was
drop_io_error(dir, sf, tf) ==
  IF exists_or_err(dir, sf, tf) # "Ok" THEN Fail(exists_or_err(dir, sf, tf), sf, tf)
  ELSE Out("IoErr", NoSchema, tf, {"schema"})

\* truncate that writes the entries file without asking whether the table exists
truncate_recreates(dir, sf, tf) ==
  IF Database_exists_or_err(dir) # "Ok" THEN Fail("DBErr", sf, tf)
  ELSE Out("Ok", sf, TableOf(<<>>), {"entries"})

\* Table::truncate
truncate(dir, sf, tf) ==
  IF exists_or_err(dir, sf, tf) # "Ok" THEN Fail(exists_or_err(dir, sf, tf), sf, tf)
  ELSE Out("Ok", sf, TableOf(<<>>), {"entries"})

\* add_col that extends the schema and leaves the entries as they are
add_col_no_backfill(dir, sf, tf, col_name, datatype) ==
  IF exists_or_err(dir, sf, tf) # "Ok" THEN Fail(exists_or_err(dir, sf, tf), sf, tf)
  ELSE IF col_exist(sf, col_name) THEN Fail("ColAlreadyExist", sf, tf)
  ELSE IF Len(sf.cols) # Len(sf.types) THEN Fail("NumberMismatch", sf, tf)
  ELSE Out("Ok", SchemaOf(Append(sf.cols, col_name), Append(sf.types, datatype)), tf,
           {"entries", "schema"})

\* add_col that compares the lengths before it looks for the column
add_col_lengths_first(dir, sf, tf, col_name, datatype) ==
  IF exists_or_err(dir, sf, tf) # "Ok" THEN Fail(exists_or_err(dir, sf, tf), sf, tf)
  ELSE IF Len(sf.cols) # Len(sf.types) THEN Fail("NumberMismatch", sf, tf)
  ELSE IF col_exist(sf, col_name) THEN Fail("ColAlreadyExist", sf, tf)
  ELSE Out("Ok",
           SchemaOf(Append(sf.cols, col_name), Append(sf.types, datatype)),
           TableOf([i \in 1..Len(tf.entries) |->
                      map_insert(tf.entries[i], col_name, default(datatype))]),
           {"entries", "schema"})

\* add_col that fills the column only in the entries that lack it
add_col_keeps_stale(dir, sf, tf, col_name, datatype) ==
  IF exists_or_err(dir, sf, tf) # "Ok" THEN Fail(exists_or_err(dir, sf, tf), sf, tf)
  ELSE IF col_exist(sf, col_name) THEN Fail("ColAlreadyExist", sf, tf)
  ELSE IF Len(sf.cols) # Len(sf.types) THEN Fail("NumberMismatch", sf, tf)
  ELSE Out("Ok",
           SchemaOf(Append(sf.cols, col_name), Append(sf.types, datatype)),
           TableOf([i \in 1..Len(tf.entries) |->
                      IF contains_key(tf.entries[i], col_name) THEN tf.entries[i]
                      ELSE map_insert(tf.entries[i], col_name, default(datatype))]),
           {"entries", "schema"})

\* add_col that writes the backfilled entries before it compares the lengths
add_col_checks_after_write(dir, sf, tf, col_name, datatype) ==
  IF exists_or_err(dir, sf, tf) # "Ok" THEN Fail(exists_or_err(dir, sf, tf), sf, tf)
  ELSE IF col_exist(sf, col_name) THEN Fail("ColAlreadyExist", sf, tf)
  ELSE LET backfilled == TableOf([i \in 1..Len(tf.entries) |->
                                    map_insert(tf.entries[i], col_name, default(datatype))])
       IN IF Len(sf.cols) # Len(sf.types)
          THEN Out("NumberMismatch", sf, backfilled, {"entries"})
          ELSE Out("Ok", SchemaOf(Append(sf.cols, col_name), Append(sf.types, datatype)),
                   backfilled, {"entries", "schema"})

\* Table::add_col
add_col(dir, sf, tf, col_name, datatype) ==
  IF exists_or_err(dir, sf, tf) # "Ok" THEN Fail(exists_or_err(dir, sf, tf), sf, tf)
  ELSE IF col_exist(sf, col_name) THEN Fail("ColAlreadyExist", sf, tf)
  ELSE IF Len(sf.cols) # Len(sf.types) THEN Fail("NumberMismatch", sf, tf)
  ELSE Out("Ok",
           SchemaOf(Append(sf.cols, col_name), Append(sf.types, datatype)),
           TableOf([i \in 1..Len(tf.entries) |->
                      map_insert(tf.entries[i], col_name, default(datatype))]),
           {"entries", "schema"})

\* Vec::remove: the list without its element at pos (from 1)
remove(list, pos) == [i \in 1..(Len(list) - 1) |-> IF i < pos THEN list[i] ELSE list[i + 1]]

\* Table::remove_col; Vec::remove panics on an index past the end, and a build
\* with debug_assertions panics when the two lists end up of unequal length
remove_col(dir, sf, tf, col_name, debug_assertions) ==
  IF exists_or_err(dir, sf, tf) # "Ok" THEN Fail(exists_or_err(dir, sf, tf), sf, tf)
  ELSE LET pos == get_col_pos(sf.cols, col_name)
       IN IF pos = 0 THEN Fail("ColNotFound", sf, tf)
          ELSE IF pos > Len(sf.types) THEN Fail("Panic", sf, tf)
          ELSE IF debug_assertions /\ Len(sf.cols) # Len(sf.types) THEN Fail("Panic", sf, tf)
          ELSE Out("Ok", SchemaOf(remove(sf.cols, pos), remove(sf.types, pos)), tf,
                   {"schema"})

(* ------------------------ what callers pass --------------------------- *)

\* the column lists and type lists a caller may hand to create: equal and
\* unequal lengths, a repeated name
CreateCols == {<<"a">>, <<"a", "b">>, <<"a", "a">>}
CreateTypes == {<<"Text">>, <<"Text", "Integer">>, <<"Integer", "Text">>}
\* the rows a caller may hand to insert, and the batches of them
Rows == {<<"x">>, <<"x", "0">>}
Batches == SeqsUpTo(Rows, MaxRows)
\* the column selections a caller may hand to insert
InsertCols == {All, Cols(<<"a">>), Cols(<<"a", "a">>)}
\* the column selections a caller may hand to select
SelectColsArgs == {All, Cols(<<"b">>), Cols(<<" a">>)}
\* the conditions a caller may hand to delete, and to select
Conditions == {Some(k, o, "0") : k \in ColNames, o \in Operators}
SelectConditions == {None, Some("a", "NotEq", "0")}

(* ------------------------------ actions ------------------------------- *)

\* the files and the call record after a call with outcome o
Returns(o, rec) ==
  \E out \in {o} :
    /\ schemaFile' = out.sf
    /\ tableFile' = out.tf
    /\ call' = [rec EXCEPT !.res = out.res, !.writes = out.writes, !.row = out.row,
                            !.n = Len(tableFile.entries)]
    /\ dropped' = IF out.res = "Ok" /\ rec.op \in {"create", "drop"}
                  THEN rec.op = "drop"
                  ELSE dropped
    /\ UNCHANGED <<dbDir, otherDir, currDb, procs>>

Table_new ==
  /\ call' = Call("new", new(dbDir), {})
  /\ UNCHANGED <<dbDir, schemaFile, tableFile, dropped, otherDir, currDb, procs>>

Table_create ==
  \E cols \in CreateCols, types \in CreateTypes :
    Returns(create(dbDir, schemaFile, tableFile, cols, types),
            [Call("create", "", {}) EXCEPT !.cols = Cols(cols), !.types = types])

Table_insert ==
  \E cols \in InsertCols, values \in Batches :
    /\ Len(tableFile.entries) + Len(values) <= MaxEntries
    /\ Returns(insert(dbDir, schemaFile, tableFile, cols, values),
               [Call("insert", "", {}) EXCEPT !.cols = cols, !.rows = values])

Table_select ==
  \E cols \in SelectColsArgs, condition \in SelectConditions :
    \E r \in {select(dbDir, schemaFile, tableFile, cols, condition)} :
       /\ call' = [Call("select", r.res, {}) EXCEPT
                     !.cols = cols, !.cond = condition, !.ret = r.ret]
       /\ UNCHANGED <<dbDir, schemaFile, tableFile, dropped, otherDir, currDb, procs>>

Table_delete ==
  \E condition \in Conditions :
    Returns(delete(dbDir, schemaFile, tableFile, condition),
            [Call("delete", "", {}) EXCEPT !.cond = condition])

Table_alter ==
  \E col_name \in ColNames, datatype \in DataTypes :
    Returns(alter(dbDir, schemaFile, tableFile, col_name, datatype),
            [Call("alter", "", {}) EXCEPT !.col = col_name, !.dtype = datatype])

Table_drop ==
  Returns(drop(dbDir, schemaFile, tableFile), Call("drop", "", {}))

Table_truncate ==
  Returns(truncate(dbDir, schemaFile, tableFile), Call("truncate", "", {}))

Table_add_col ==
  \E col_name \in ColNames, datatype \in DataTypes :
    Returns(add_col(dbDir, schemaFile, tableFile, col_name, datatype),
            [Call("add_col", "", {}) EXCEPT
               !.col = col_name, !.dtype = datatype,
               !.stale = \E i \in 1..Len(tableFile.entries) :
                           /\ contains_key(tableFile.entries[i], col_name)
                           /\ get(tableFile.entries[i], col_name) # default(datatype)])

Table_remove_col ==
  \E col_name \in ColNames, debug_assertions \in BOOLEAN :
    Returns(remove_col(dbDir, schemaFile, tableFile, col_name, debug_assertions),
            [Call("remove_col", "", {}) EXCEPT !.col = col_name])

Next ==
  \/ Database_new
  \/ Database_drop
  \/ Table_new
  \/ Table_create
  \/ Table_insert
  \/ Table_select
  \/ Table_delete
  \/ Table_alter
  \/ Table_drop
  \/ Table_truncate
  \/ Table_add_col
  \/ Table_remove_col

Spec == Init /\ [][Next]_vars

Table_create_io_error ==
  \E cols \in CreateCols, types \in CreateTypes :
    /\ ~tableFile.present
    /\ Returns(create_io_error(dbDir, schemaFile, tableFile, cols, types),
               [Call("create", "", {}) EXCEPT !.cols = Cols(cols), !.types = types])

Table_drop_io_error ==
  Returns(drop_io_error(dbDir, schemaFile, tableFile), Call("drop", "", {}))

\* the operations, and the two I/O failures that leave one file of the table
NextIo ==
  \/ Next
  \/ Table_create_io_error
  \/ Table_drop_io_error

SpecIo == Init /\ [][NextIo]_vars

\* two databases and the current-database pointer; create and drop of the
\* table, so that a database may refuse to be dropped
NextDb ==
  \/ Database_new
  \/ Database_drop
  \/ Database_new_other
  \/ Database_drop_other
  \/ Database_use_db
  \/ Database_get_curr_db
  \/ Table_create
  \/ Table_drop

SpecDb == Init /\ [][NextDb]_vars

\* match_query on its own: a table of one or two entries, each with or
\* without a Text column a and an Integer column b, and select and delete
\* under every operator, key and literal
MatchLiterals == {"10", "9"}
MatchEntries ==
  {va \cup vb : va \in {{}, {<<"a", "10">>}},
                vb \in {{}} \cup {{<<"b", v>>} : v \in {"1", "10", "9"}}}
MatchConditions ==
  {None} \cup {Some(k, o, v) : k \in ColNames, o \in Operators, v \in MatchLiterals}

InitMatch ==
  /\ dbDir = TRUE
  /\ schemaFile = SchemaOf(<<"a", "b">>, <<"Text", "Integer">>)
  /\ tableFile \in {TableOf(entries) : entries \in SeqsUpTo(MatchEntries, MaxEntries) \ {<<>>}}
  /\ call = Call("start", "Ok", {})
  /\ dropped = FALSE
  /\ otherDir = FALSE
  /\ currDb = NoPointer
  /\ procs = [p \in Procs |-> Idle]

Table_select_match ==
  \E condition \in MatchConditions :
    \E r \in {select(dbDir, schemaFile, tableFile, All, condition)} :
       /\ call' = [Call("select", r.res, {}) EXCEPT !.cond = condition, !.ret = r.ret]
       /\ UNCHANGED <<dbDir, schemaFile, tableFile, dropped, otherDir, currDb, procs>>

Table_delete_match ==
  \E condition \in MatchConditions :
    Returns(delete(dbDir, schemaFile, tableFile, condition),
            [Call("delete", "", {}) EXCEPT !.cond = condition])

NextMatch ==
  \/ Table_select_match
  \/ Table_delete_match

SpecMatch == InitMatch /\ [][NextMatch]_vars

(* ------------------- two processes, step by step ---------------------- *)
\* a Table operation is a sequence of whole-file reads and whole-file writes
\* with no lock; here each read and each write of insert is a step of its
\* own, and the steps of two processes interleave

\* insert up to its read of the entries file: the checks and the entries built
insert_build(dir, sf, tf, cols, values) ==
  IF Database_exists_or_err(dir) # "Ok" THEN [res |-> "DBErr", row |-> 0, entries |-> <<>>]
  ELSE IF exists_or_err(dir, sf, tf) # "Ok"
  THEN [res |-> exists_or_err(dir, sf, tf), row |-> 0, entries |-> <<>>]
  ELSE LET resolved == resolve_cols(sf, cols)
           checked == col_type_map(sf, resolved, 1)
       IN IF checked # "Ok" THEN [res |-> checked, row |-> 0, entries |-> <<>>]
          ELSE new_entries(sf, resolved, values, 1, <<>>)

\* a write that appends the new entries to what the file holds at the write
written_entries_appended(tf, all_entries, built) == TableOf(tf.entries \o built)

\* insert: all_entries.extend(new_entries); self.write(&all_entries)
written_entries(tf, all_entries, built) == TableOf(all_entries \o built)

\* the batches the two processes may insert
RaceBatches == {<<<<"x">>>>, <<<<"0">>>>}

\* process p returns from its call
Return(p, op, res, writes) ==
  /\ procs' = [procs EXCEPT ![p] = [@ EXCEPT !.pc = "returned", !.res = res]]
  /\ call' = [Call(op, res, writes) EXCEPT
                !.proc = p, !.rows = procs[p].rows, !.col = procs[p].col,
                !.dtype = procs[p].dtype, !.n = Len(tableFile.entries)]

\* insert, from the call to the entries built (table.rs:64-107)
Insert_start(p) ==
  \E values \in RaceBatches :
    \E b \in {insert_build(dbDir, schemaFile, tableFile, All, values)} :
      /\ procs[p].pc = "idle"
      /\ IF b.res # "Ok"
         THEN /\ procs' = [procs EXCEPT ![p] = [Idle EXCEPT !.pc = "returned", !.op = "insert",
                                                             !.rows = values, !.res = b.res]]
              /\ call' = [Call("insert", b.res, {}) EXCEPT !.proc = p, !.rows = values,
                                                            !.n = Len(tableFile.entries)]
         ELSE /\ procs' = [procs EXCEPT ![p] = [Idle EXCEPT !.pc = "built", !.op = "insert",
                                                             !.rows = values,
                                                             !.new_entries = b.entries]]
              /\ UNCHANGED call
      /\ UNCHANGED <<dbDir, schemaFile, tableFile, dropped, otherDir, currDb>>

\* insert: let mut all_entries = self.read()? (table.rs:109)
Insert_read(p) ==
  /\ procs[p].pc = "built" /\ procs[p].op = "insert"
  /\ IF exists_or_err(dbDir, schemaFile, tableFile) # "Ok"
     THEN Return(p, "insert", exists_or_err(dbDir, schemaFile, tableFile), {})
     ELSE /\ procs' = [procs EXCEPT ![p] = [@ EXCEPT !.pc = "read",
                                                      !.all_entries = tableFile.entries]]
          /\ UNCHANGED call
  /\ UNCHANGED <<dbDir, schemaFile, tableFile, dropped, otherDir, currDb>>

\* insert: all_entries.extend(new_entries); self.write(&all_entries)?; Ok(())
\* (table.rs:110-118)
Insert_write(p) ==
  /\ procs[p].pc = "read" /\ procs[p].op = "insert"
  /\ IF exists_or_err(dbDir, schemaFile, tableFile) # "Ok"
     THEN /\ Return(p, "insert", exists_or_err(dbDir, schemaFile, tableFile), {})
          /\ UNCHANGED tableFile
     ELSE /\ tableFile' = written_entries(tableFile, procs[p].all_entries, procs[p].new_entries)
          /\ Return(p, "insert", "Ok", {"entries"})
  /\ UNCHANGED <<dbDir, schemaFile, dropped, otherDir, currDb>>

\* a database and a table with one Text or Integer column a, empty or with
\* one entry
InitRace ==
  /\ dbDir = TRUE
  /\ schemaFile \in {SchemaOf(<<"a">>, <<t>>) : t \in DataTypes}
  /\ tableFile \in {TableOf(<<>>), TableOf(<<{<<"a", "1">>}>>)}
  /\ call = Call("start", "Ok", {})
  /\ dropped = FALSE
  /\ otherDir = FALSE
  /\ currDb = NoPointer
  /\ procs = [p \in Procs |-> Idle]

NextRace ==
  \E p \in Procs :
    \/ Insert_start(p)
    \/ Insert_read(p)
    \/ Insert_write(p)

SpecRace == InitRace /\ [][NextRace]_vars

(* ---------------------- add_col, write by write ------------------------ *)
\* add_col is a read of both files, a write of the entries file and a write
\* of the schema file; here each write is a step of its own and the process
\* may be stopped before either of them; one process runs at a time

\* add_col that writes the schema file before the entries file
add_col_writes_schema_first == <<"schema", "entries">>

\* add_col: self.write(&new_entries)?; self.write_schema(schema)?
add_col_writes == <<"entries", "schema">>

\* no process is in the middle of an operation
NoneRunning == \A q \in Procs : procs[q].pc \in {"idle", "returned", "interrupted"}

\* add_col, from the call to the new schema and the new entries in memory
\* (table.rs:197-222)
AddCol_start(p) ==
  \E col_name \in ColNames, datatype \in DataTypes :
    \E o \in {add_col(dbDir, schemaFile, tableFile, col_name, datatype)} :
      /\ NoneRunning
      /\ procs[p].pc = "idle"
      /\ IF o.res # "Ok"
         THEN /\ procs' = [procs EXCEPT ![p] = [Idle EXCEPT !.pc = "returned", !.op = "add_col",
                                                             !.col = col_name, !.dtype = datatype,
                                                             !.res = o.res]]
              /\ call' = [Call("add_col", o.res, {}) EXCEPT
                            !.proc = p, !.col = col_name, !.dtype = datatype,
                            !.n = Len(tableFile.entries)]
         ELSE /\ procs' = [procs EXCEPT ![p] = [Idle EXCEPT !.pc = "read", !.op = "add_col",
                                                             !.col = col_name, !.dtype = datatype,
                                                             !.schema = o.sf,
                                                             !.new_entries = o.tf.entries]]
              /\ UNCHANGED call
      /\ UNCHANGED <<dbDir, schemaFile, tableFile, dropped, otherDir, currDb>>

\* the k-th write of add_col by process p: Table::write or Table::write_schema
AddCol_write(p, k) ==
  IF exists_or_err(dbDir, schemaFile, tableFile) # "Ok"
  THEN /\ Return(p, "add_col", exists_or_err(dbDir, schemaFile, tableFile),
                 {add_col_writes[j] : j \in 1..(k - 1)})
       /\ UNCHANGED <<schemaFile, tableFile>>
  ELSE /\ IF add_col_writes[k] = "entries"
          THEN tableFile' = TableOf(procs[p].new_entries) /\ UNCHANGED schemaFile
          ELSE schemaFile' = procs[p].schema /\ UNCHANGED tableFile
       /\ IF k = Len(add_col_writes)
          THEN Return(p, "add_col", "Ok", {add_col_writes[j] : j \in 1..k})
          ELSE /\ procs' = [procs EXCEPT ![p] = [@ EXCEPT !.pc = "written"]]
               /\ UNCHANGED call

\* add_col: self.write(&new_entries)? (table.rs:224)
AddCol_first_write(p) ==
  /\ procs[p].pc = "read" /\ procs[p].op = "add_col"
  /\ AddCol_write(p, 1)
  /\ UNCHANGED <<dbDir, dropped, otherDir, currDb>>

\* add_col: self.write_schema(schema)?; Ok(()) (table.rs:225-226)
AddCol_second_write(p) ==
  /\ procs[p].pc = "written" /\ procs[p].op = "add_col"
  /\ AddCol_write(p, 2)
  /\ UNCHANGED <<dbDir, dropped, otherDir, currDb>>

\* the process is killed before its next write, or the write fails with an
\* I/O error that add_col returns; nothing is rolled back
AddCol_interrupt(p) ==
  \E res \in {"Interrupted", "IoErr"} :
    /\ procs[p].pc \in {"read", "written"} /\ procs[p].op = "add_col"
    /\ procs' = [procs EXCEPT ![p] = [@ EXCEPT !.pc = "interrupted", !.res = res]]
    /\ call' = [Call("add_col", res, IF procs[p].pc = "written" THEN {add_col_writes[1]} ELSE {})
                  EXCEPT !.proc = p, !.col = procs[p].col, !.dtype = procs[p].dtype,
                         !.n = Len(tableFile.entries)]
    /\ UNCHANGED <<dbDir, schemaFile, tableFile, dropped, otherDir, currDb>>

\* the entries of a table with a Text column a, with or without a value of a
\* column b that was removed from the schema
CrashEntries == {{<<"a", "x">>}, {<<"a", "x">>, <<"b", "x">>}}

InitCrash ==
  /\ dbDir = TRUE
  /\ schemaFile = SchemaOf(<<"a">>, <<"Text">>)
  /\ tableFile \in {TableOf(entries) : entries \in SeqsUpTo(CrashEntries, MaxEntries)}
  /\ call = Call("start", "Ok", {})
  /\ dropped = FALSE
  /\ otherDir = FALSE
  /\ currDb = NoPointer
  /\ procs = [p \in Procs |-> Idle]

NextCrash ==
  \E p \in Procs :
    \/ AddCol_start(p)
    \/ AddCol_first_write(p)
    \/ AddCol_second_write(p)
    \/ AddCol_interrupt(p)

SpecCrash == InitCrash /\ [][NextCrash]_vars

(* ------------------------------ claims -------------------------------- *)

\* the table exists: Table::exists_or_err returns Ok
TableExists == dbDir /\ exist(schemaFile, tableFile)
\* the set of the elements of a sequence
Range(list) == {list[i] : i \in 1..Len(list)}
\* the last index of a column in a list
LastPos(cols, c) == CHOOSE j \in 1..Len(cols) : cols[j] = c /\ \A k \in (j + 1)..Len(cols) : cols[k] # c
\* the column list an insert's SelectCols stands for, by the claim's words
ResolvedList(sel, schema) == IF sel.all THEN schema.cols ELSE sel.list
\* the (column, value) pairs of a column list zipped with a row
ZipPairs(cols, row) == {<<cols[j], row[j]>> : j \in 1..Len(cols)}
\* the pairs of a column list zipped with a row, a repeated column keeping its last value
ZipLast(cols, row) == {<<c, row[LastPos(cols, c)]>> : c \in Range(cols)}

\* C1: an insert that fails, whatever the reason and wherever the offending row
\* is in the batch, leaves the schema and the entries as they were and writes
\* no file
C1_InsertAllOrNothing ==
  [][(call'.op = "insert" /\ call'.res # "Ok")
       => (schemaFile' = schemaFile /\ tableFile' = tableFile /\ call'.writes = {})]_vars

\* C1: an insert of two rows into an existing table failed on its second row
C1_Witness ==
  /\ call.op = "insert" /\ call.res = "NumberMismatch"
  /\ Len(call.rows) = 2 /\ call.row = 2
  /\ TableExists

\* C2 (as claimed): a successful insert leaves the prior entries followed by one
\* entry per row that holds exactly the pairs of the resolved columns zipped
\* with the row, and select(All, none) then returns that sequence
C2_InsertAppendsZippedPairs ==
  [][(call'.op = "insert" /\ call'.res = "Ok")
       => LET cols == ResolvedList(call'.cols, schemaFile)
              rows == call'.rows
              after == tableFile.entries \o [i \in 1..Len(rows) |-> ZipPairs(cols, rows[i])]
          IN /\ tableFile' = TableOf(after)
             /\ select(dbDir', schemaFile', tableFile', All, None) = [res |-> "Ok", ret |-> after]
    ]_vars

\* C2 (amended): a successful insert leaves the prior entries, in their order,
\* followed by one entry per row in input order; the entry of a row maps each
\* column of the resolved list to the row's value at the column's last place
\* in the list (the zipped pairs when no column is repeated); the schema is
\* unchanged and select(All, none) then returns that sequence
C2_InsertAppendsLastValues ==
  [][(call'.op = "insert" /\ call'.res = "Ok")
       => LET cols == ResolvedList(call'.cols, schemaFile)
              rows == call'.rows
              after == tableFile.entries \o [i \in 1..Len(rows) |-> ZipLast(cols, rows[i])]
          IN /\ \A i \in 1..Len(rows) : Len(rows[i]) = Len(cols)
             /\ tableFile' = TableOf(after)
             /\ schemaFile' = schemaFile
             /\ select(dbDir', schemaFile', tableFile', All, None) = [res |-> "Ok", ret |-> after]
    ]_vars

\* C2: a row was appended to a non-empty table under an explicit column list
\* that is a strict subset of the schema's columns
C2_Witness ==
  /\ call.op = "insert" /\ call.res = "Ok"
  /\ call.n = 1 /\ Len(call.rows) = 1 /\ Len(tableFile.entries) = 2
  /\ call.cols = Cols(<<"a">>) /\ "b" \in Range(schemaFile.cols)
  /\ Keys(tableFile.entries[2]) = {"a"}

\* C3 (as claimed): select never aborts the process: it returns its entries or
\* a recoverable error
C3_SelectNeverPanics ==
  call.op = "select" => call.res \in {"Ok", "ColNotFound", "DBErr", "TableNotFond"}

\* C4: delete on an existing table succeeds and leaves exactly the prior
\* entries that do not match the condition, in their order, and the schema as
\* it was; select(All, condition) then returns nothing and a second delete
\* with the condition changes nothing
C4_DeleteRemovesMatching ==
  [][(call'.op = "delete" /\ TableExists)
       => LET condition == call'.cond
              survives(e) == ~match_query(condition, e)
          IN /\ call'.res = "Ok"
             /\ tableFile' = TableOf(SelectSeq(tableFile.entries, survives))
             /\ schemaFile' = schemaFile
             /\ select(dbDir', schemaFile', tableFile', All, condition)
                  = [res |-> "Ok", ret |-> <<>>]
             /\ delete(dbDir', schemaFile', tableFile', condition).tf = tableFile'
    ]_vars

\* C4: a delete removed one of two entries and kept the other
C4_Witness ==
  /\ call.op = "delete" /\ call.res = "Ok"
  /\ call.n = 2 /\ Len(tableFile.entries) = 1


\* C5: a successful add_col appends the column and the type at the end of the
\* schema, whose two lists stay of equal length, and leaves as many entries in
\* the same order, each its prior value with the column set to the type's
\* default
C5_AddColAppendsAndBackfills ==
  [][(call'.op = "add_col" /\ call'.res = "Ok")
       => LET c == call'.col
              t == call'.dtype
          IN /\ schemaFile' = SchemaOf(Append(schemaFile.cols, c), Append(schemaFile.types, t))
             /\ Len(schemaFile'.cols) = Len(schemaFile'.types)
             /\ tableFile'.present
             /\ Len(tableFile'.entries) = Len(tableFile.entries)
             /\ \A i \in 1..Len(tableFile.entries) :
                  LET old == tableFile.entries[i]
                      now == tableFile'.entries[i]
                  IN /\ Keys(now) = Keys(old) \cup {c}
                     /\ get(now, c) = default(t)
                     /\ \A k \in Keys(old) \ {c} : get(now, k) = get(old, k)
    ]_vars

\* C5: an add_col of an Integer column succeeded on a table with two entries,
\* which now hold its default
C5_Witness ==
  /\ call.op = "add_col" /\ call.res = "Ok" /\ call.dtype = "Integer"
  /\ call.n = 2 /\ Len(tableFile.entries) = 2
  /\ \A i \in 1..2 : get(tableFile.entries[i], call.col) = "0"

\* C6: add_col on an existing table fails with ColAlreadyExist when the column
\* is in the schema, also when the lists are of unequal length; with
\* NumberMismatch when it is not and the lists are of unequal length; neither
\* failure changes the schema or the entries
C6_AddColFailures ==
  [][(call'.op = "add_col" /\ TableExists)
       => /\ (call'.col \in Range(schemaFile.cols) => call'.res = "ColAlreadyExist")
          /\ ((call'.col \notin Range(schemaFile.cols)
                 /\ Len(schemaFile.cols) # Len(schemaFile.types))
                => call'.res = "NumberMismatch")
          /\ (call'.res \in {"ColAlreadyExist", "NumberMismatch"}
                => schemaFile' = schemaFile /\ tableFile' = tableFile /\ call'.writes = {})
    ]_vars

\* C6: add_col failed with ColAlreadyExist on a schema whose lists are of
\* unequal length
C6_Witness ==
  /\ call.op = "add_col" /\ call.res = "ColAlreadyExist"
  /\ Len(schemaFile.cols) # Len(schemaFile.types)
  /\ call.col \in Range(schemaFile.cols)

\* C7 (as claimed): remove_col on an existing table fails with ColNotFound and
\* changes nothing when the column is not in the schema; otherwise it removes
\* the column and the type at the column's position and leaves the entries
\* as they were
C7_RemoveColRemovesPair ==
  [][(call'.op = "remove_col" /\ TableExists)
       => LET pos == get_col_pos(schemaFile.cols, call'.col)
          IN IF call'.col \notin Range(schemaFile.cols)
             THEN /\ call'.res = "ColNotFound"
                  /\ schemaFile' = schemaFile /\ tableFile' = tableFile
             ELSE /\ call'.res = "Ok"
                  /\ schemaFile' = SchemaOf(remove(schemaFile.cols, pos),
                                            remove(schemaFile.types, pos))
                  /\ tableFile' = tableFile /\ call'.writes = {"schema"}
    ]_vars

\* C8 (as claimed): alter on an existing table fails with ColNotFound and
\* changes nothing when the column is not in the schema; otherwise it replaces
\* the type at the column's position, leaves the columns, the other types and
\* the entries as they were, and a later insert is checked against the new type
C8_AlterReplacesType ==
  [][(call'.op = "alter" /\ TableExists)
       => LET pos == get_col_pos(schemaFile.cols, call'.col)
          IN IF call'.col \notin Range(schemaFile.cols)
             THEN /\ call'.res = "ColNotFound"
                  /\ schemaFile' = schemaFile /\ tableFile' = tableFile
             ELSE /\ call'.res = "Ok"
                  /\ schemaFile'.cols = schemaFile.cols
                  /\ Len(schemaFile'.types) = Len(schemaFile.types)
                  /\ \A i \in 1..Len(schemaFile.types) :
                       schemaFile'.types[i] = IF i = pos THEN call'.dtype ELSE schemaFile.types[i]
                  /\ tableFile' = tableFile
                  /\ \A v \in {"0", "x"} :
                       (insert(dbDir', schemaFile', tableFile', Cols(<<call'.col>>), <<<<v>>>>).res
                          = "TypeErr") <=> ~is_valid(call'.dtype, v)
    ]_vars

\* C9 (as claimed): the schema of an existing table has as many types as columns
C9_SchemaListsOfEqualLength ==
  schemaFile.present => Len(schemaFile.cols) = Len(schemaFile.types)

\* the operations that check that the table exists
CheckedOps ==
  {"insert", "select", "delete", "alter", "add_col", "remove_col", "truncate", "drop"}

\* C10 (as claimed): an operation other than new and create on a table whose
\* database, schema file or entries file is missing fails with TableNotFound
\* and creates, modifies or deletes no file
C10_MissingIsTableNotFound ==
  [][(call'.op \in CheckedOps /\ ~TableExists)
       => /\ call'.res = "TableNotFond"
          /\ call'.writes = {}
          /\ UNCHANGED <<dbDir, schemaFile, tableFile>>
    ]_vars

\* C10 (amended): an operation other than new and create fails with the
\* database's NotFound error (wrapped as DBErr) when the database does not
\* exist, and with TableNotFound when the database exists and the schema file
\* or the entries file is missing; either way it creates, modifies or deletes
\* no file
C10_MissingIsNotFound ==
  [][(call'.op \in CheckedOps /\ ~TableExists)
       => /\ call'.res = IF ~dbDir THEN "DBErr" ELSE "TableNotFond"
          /\ call'.writes = {}
          /\ UNCHANGED <<dbDir, schemaFile, tableFile>>
    ]_vars

\* C10: a delete failed with TableNotFound on a table that has its entries
\* file and lacks its schema file
C10_Witness ==
  /\ call.op = "delete" /\ call.res = "TableNotFond"
  /\ dbDir /\ tableFile.present /\ ~schemaFile.present

\* C11: create on an existing database succeeds whether or not the table is
\* there and whatever it holds; the schema is then the given columns and types,
\* the entry sequence is empty and select(All, none) returns nothing; on a
\* missing database create fails with the database's NotFound error (wrapped
\* as DBErr) and writes no file
C11_CreateOverwrites ==
  [][call'.op = "create"
       => IF dbDir
          THEN /\ call'.res = "Ok"
               /\ schemaFile' = SchemaOf(call'.cols.list, call'.types)
               /\ tableFile' = TableOf(<<>>)
               /\ call'.writes = {"schema", "entries"}
               /\ select(dbDir', schemaFile', tableFile', All, None)
                    = [res |-> "Ok", ret |-> <<>>]
          ELSE /\ call'.res = "DBErr"
               /\ call'.writes = {}
               /\ UNCHANGED <<dbDir, schemaFile, tableFile>>
    ]_vars

\* C11: a create succeeded over a table that held two entries under another
\* schema, and the table is now empty
C11_Witness ==
  /\ call.op = "create" /\ call.res = "Ok"
  /\ call.n = 2 /\ tableFile = TableOf(<<>>)
  /\ schemaFile = SchemaOf(<<"a", "b">>, <<"Text", "Integer">>)

\* C12 (as claimed): drop on an existing table removes the schema file and the
\* entries file; from then on, until the next successful create, both files
\* stay away and every operation other than new and create fails with
\* TableNotFound
C12_DroppedIsTableNotFound ==
  [][/\ (call'.op = "drop" /\ TableExists)
          => (call'.res = "Ok" /\ schemaFile' = NoSchema /\ tableFile' = NoTable /\ dropped')
     /\ dropped'
          => (schemaFile' = NoSchema /\ tableFile' = NoTable)
     /\ (dropped /\ call'.op \in CheckedOps)
          => (call'.res = "TableNotFond" /\ dropped')
    ]_vars

\* C12 (amended): drop on an existing table removes the schema file and the
\* entries file; from then on, until the next successful create, both files
\* stay away and every operation other than new and create fails: with
\* TableNotFound while the database exists, with the database's NotFound
\* error (wrapped as DBErr) once the database has been dropped too
C12_DroppedIsNotFound ==
  [][/\ (call'.op = "drop" /\ TableExists)
          => (call'.res = "Ok" /\ schemaFile' = NoSchema /\ tableFile' = NoTable /\ dropped')
     /\ dropped'
          => (schemaFile' = NoSchema /\ tableFile' = NoTable)
     /\ (dropped /\ call'.op \in CheckedOps)
          => (call'.res = (IF dbDir THEN "TableNotFond" ELSE "DBErr") /\ dropped')
    ]_vars

\* C12: a truncate of a dropped table failed with TableNotFound and the
\* entries file is still away
C12_Witness ==
  /\ call.op = "truncate" /\ call.res = "TableNotFond"
  /\ dropped /\ dbDir /\ tableFile = NoTable /\ schemaFile = NoSchema

\* the operations of Database on the database that holds the table
DatabaseOps == {"Database::new", "Database::drop"}

\* C13: the directory of the database appears only by a successful
\* Database::new, which leaves it without table files, and disappears only by
\* a successful Database::drop; a missing database holds no table file; new on
\* an existing database fails with DuplicatedDB and drop on a missing one with
\* NotFound; drop on a database that holds the schema file or the entries file
\* fails with an I/O error; none of the three failures changes the directory
\* or the files; no Table operation changes whether the database exists
C13_DatabaseLifecycle ==
  [][/\ (~dbDir /\ dbDir')
          => (call'.op = "Database::new" /\ call'.res = "Ok")
     /\ (dbDir /\ ~dbDir')
          => (call'.op = "Database::drop" /\ call'.res = "Ok")
     /\ ~dbDir'
          => (schemaFile' = NoSchema /\ tableFile' = NoTable)
     /\ call'.op = "Database::new"
          => (IF dbDir
              THEN call'.res = "DuplicatedDB" /\ UNCHANGED <<dbDir, schemaFile, tableFile>>
              ELSE call'.res = "Ok" /\ dbDir' /\ schemaFile' = NoSchema /\ tableFile' = NoTable)
     /\ call'.op = "Database::drop"
          => (IF ~dbDir
              THEN call'.res = "NotFound" /\ UNCHANGED <<dbDir, schemaFile, tableFile>>
              ELSE IF schemaFile.present \/ tableFile.present
              THEN call'.res = "IoError" /\ UNCHANGED <<dbDir, schemaFile, tableFile>>
              ELSE call'.res = "Ok" /\ ~dbDir')
     /\ call'.op \notin DatabaseOps
          => dbDir' = dbDir
    ]_vars

\* C13: a Database::drop failed with an I/O error on a database that holds
\* the entries file of a table and not its schema file
C13_Witness ==
  /\ call.op = "Database::drop" /\ call.res = "IoError"
  /\ dbDir /\ tableFile.present /\ ~schemaFile.present

\* whether the database of a name exists in the current state
DbExists(name) == dir_of(name, dbDir, otherDir)

\* C14: use_db writes the name into the pointer when the database exists at
\* the call, and otherwise fails with NotFound and leaves the pointer as it
\* was; the pointer changes by nothing but a successful use_db, so it holds
\* the name last set; get_curr_db on a pointer that was set returns that name
\* when its database exists at the read and fails with NotFound when it does
\* not, and leaves the pointer as it was either way
C14_CurrentDbPointer ==
  [][/\ call'.op = "use_db"
          => (IF DbExists(call'.name)
              THEN call'.res = "Ok" /\ currDb' = PointerTo(call'.name)
              ELSE call'.res = "NotFound" /\ currDb' = currDb)
     /\ currDb' # currDb
          => (call'.op = "use_db" /\ call'.res = "Ok")
     /\ (call'.op = "get_curr_db" /\ currDb.present)
          => (/\ currDb' = currDb
              /\ IF DbExists(currDb.name)
                 THEN call'.res = "Ok" /\ call'.name = currDb.name
                 ELSE call'.res = "NotFound")
    ]_vars

\* C14: after use_db of a database and Database::drop of it, get_curr_db
\* failed with NotFound while the other database exists, and the pointer
\* still names the dropped database
C14_Witness ==
  /\ call.op = "get_curr_db" /\ call.res = "NotFound"
  /\ currDb = PointerTo(DbName) /\ ~dbDir /\ otherDir

\* the place of a string in the lexicographic order of the strings compared:
\* "1" < "10" < "9"
LexRank(v) ==
  CASE v = "1" -> 1
    [] v = "10" -> 2
    [] v = "9" -> 3

\* whether an entry matches a condition, by the claim's words
Matches(condition, entry) ==
  IF ~condition.some THEN TRUE
  ELSE IF condition.key \notin Keys(entry) THEN FALSE
  ELSE LET stored == LexRank(get(entry, condition.key))
           literal == LexRank(condition.value)
       IN CASE condition.operator = "Eq" -> stored = literal
            [] condition.operator = "NotEq" -> stored # literal
            [] condition.operator = "Gt" -> stored > literal
            [] condition.operator = "Lt" -> stored < literal
            [] condition.operator = "GtEq" -> stored >= literal
            [] condition.operator = "LtEq" -> stored <= literal

\* C15: select(All, condition) returns exactly the entries that match and
\* delete keeps exactly those that do not, where without a condition every
\* entry matches, an entry that lacks the key matches under no operator, and
\* otherwise the stored string is compared with the literal as strings (Eq and
\* NotEq by equality, Gt, Lt, GtEq, LtEq lexicographically), whatever the type
\* of the column
C15_MatchSemantics ==
  [][/\ call'.op = "select"
          => (/\ call'.res = "Ok"
              /\ call'.ret = SelectSeq(tableFile.entries, LAMBDA e : Matches(call'.cond, e)))
     /\ call'.op = "delete"
          => (/\ call'.res = "Ok"
              /\ tableFile' = TableOf(SelectSeq(tableFile.entries,
                                                LAMBDA e : ~Matches(call'.cond, e))))
    ]_vars

\* C15: a delete under NotEq on column b removed an entry whose Integer column
\* b holds "10" and kept an entry that lacks b, and "10" is Lt the literal "9"
\* for the entry that stayed out
C15_Witness ==
  /\ call.op = "delete" /\ call.res = "Ok"
  /\ call.cond = Some("b", "NotEq", "9")
  /\ call.n = 2 /\ tableFile = TableOf(<<{<<"a", "10">>}>>)
  /\ match_query(Some("b", "Lt", "9"), {<<"b", "10">>})

\* C16: the write of an insert persists the entries the process read followed
\* by its own new entries, whatever the entries file holds at the time of the
\* write, and the call returns Ok; so the rows another process wrote between
\* the read and the write are gone although no one deleted them: when both
\* processes have returned Ok and had read the same entries, the file holds
\* those entries and the rows of one process only
C16_WriteDiscardsLaterWrites ==
  [][/\ \A p \in Procs :
          (procs[p].pc = "read" /\ procs'[p].pc = "returned")
            => /\ procs'[p].res = "Ok"
               /\ call'.proc = p /\ call'.res = "Ok"
               /\ tableFile'.entries = procs[p].all_entries \o procs[p].new_entries
     /\ ((\A p \in Procs : procs'[p].pc = "returned" /\ procs'[p].res = "Ok")
           /\ procs'[1].all_entries = procs'[2].all_entries)
          => (\E p \in Procs :
                tableFile'.entries = procs'[p].all_entries \o procs'[p].new_entries)
    ]_vars

\* C16: both processes returned Ok from their inserts, of row "x" and of row
\* "0", both read the one-entry file before either wrote, and the file holds
\* the old entry and row "0" and not row "x"
C16_Witness ==
  /\ \A p \in Procs : procs[p].pc = "returned" /\ procs[p].res = "Ok"
  /\ procs[1].rows = <<<<"x">>>> /\ procs[2].rows = <<<<"0">>>>
  /\ procs[1].all_entries = procs[2].all_entries
  /\ tableFile = TableOf(<<{<<"a", "1">>}, {<<"a", "0">>}>>)

\* every entry carries the column with the value
AllCarry(tf, c, v) == \A i \in 1..Len(tf.entries) : <<c, v>> \in tf.entries[i]

\* C17: add_col writes the backfilled entries first and leaves the schema as
\* it was, then writes the schema with the column appended; when it is
\* stopped or fails between the two writes nothing is rolled back: every
\* entry carries the column's default and the schema does not list the column;
\* and in no state does the schema list a column that an entry lacks
C17_EntriesBeforeSchema ==
  [][/\ \A p \in Procs :
          LET c == procs[p].col
              v == default(procs[p].dtype)
          IN /\ (procs[p].pc = "read" /\ procs'[p].pc = "written")
                  => /\ schemaFile' = schemaFile /\ c \notin Range(schemaFile'.cols)
                     /\ Len(tableFile'.entries) = Len(tableFile.entries)
                     /\ AllCarry(tableFile', c, v)
             /\ (procs[p].pc = "written" /\ procs'[p].pc = "returned")
                  => /\ tableFile' = tableFile /\ AllCarry(tableFile', c, v)
                     /\ schemaFile'.cols = Append(schemaFile.cols, c)
             /\ (procs[p].pc = "written" /\ procs'[p].pc = "interrupted")
                  => /\ schemaFile' = schemaFile /\ tableFile' = tableFile
                     /\ c \notin Range(schemaFile'.cols)
                     /\ AllCarry(tableFile', c, v)
     /\ \A c \in Range(schemaFile'.cols) :
          \A i \in 1..Len(tableFile'.entries) : c \in Keys(tableFile'.entries[i])
    ]_vars

\* C17: an add_col of an Integer column b was stopped after its entries write:
\* both entries carry b's default, one of them in place of a stale value, and
\* the schema lists only column a
C17_Witness ==
  /\ call.op = "add_col" /\ call.res = "Interrupted" /\ call.writes = {"entries"}
  /\ call.col = "b" /\ call.dtype = "Integer"
  /\ schemaFile = SchemaOf(<<"a">>, <<"Text">>)
  /\ tableFile = TableOf(<<{<<"a", "x">>, <<"b", "0">>}, {<<"a", "x">>, <<"b", "0">>}>>)
  /\ \A p \in Procs : procs[p].pc \in {"idle", "interrupted"}

\* every entry's key set is the set of the schema's column names
KeysMatchSchema(sf, tf) ==
  \A i \in 1..Len(tf.entries) : Keys(tf.entries[i]) = Range(sf.cols)

\* the operations that keep the keys of the entries in step with the schema
KeepingOps == {"create", "delete", "truncate", "alter", "add_col"}

\* C18: from a state in which every entry's key set is the schema's column
\* set, create, insert with All, delete, truncate, alter and add_col lead to
\* such a state again (and the state without a table is one), so every state
\* of a run of these operations is one; a successful remove_col of a column
\* that the schema lists once, on a table with an entry, and a successful
\* insert of a row under a list of fewer columns than the schema has, lead
\* from such a state to one that is not
C18_KeySetsFollowSchema ==
  [][KeysMatchSchema(schemaFile, tableFile)
       => /\ (call'.op \in KeepingOps \/ (call'.op = "insert" /\ call'.cols.all))
               => KeysMatchSchema(schemaFile', tableFile')
          /\ (/\ call'.op = "remove_col" /\ call'.res = "Ok"
              /\ Len(tableFile.entries) >= 1
              /\ Cardinality({i \in 1..Len(schemaFile.cols) : schemaFile.cols[i] = call'.col}) = 1)
               => ~KeysMatchSchema(schemaFile', tableFile')
          /\ (/\ call'.op = "insert" /\ call'.res = "Ok"
              /\ ~call'.cols.all /\ Len(call'.rows) >= 1
              /\ Range(call'.cols.list) # Range(schemaFile.cols))
               => ~KeysMatchSchema(schemaFile', tableFile')
    ]_vars

\* C18: a remove_col of column b succeeded on a table whose two entries had
\* exactly the schema's columns a and b as keys, and they still have both
\* while the schema lists only a
C18_Witness ==
  /\ call.op = "remove_col" /\ call.res = "Ok" /\ call.col = "b"
  /\ schemaFile.present /\ schemaFile.cols = <<"a">>
  /\ Len(tableFile.entries) = 2
  /\ \A i \in 1..2 : Keys(tableFile.entries[i]) = {"a", "b"}

TableOps == CheckedOps \cup {"new", "create"}
\* the errors of a failed existence check or validation
FrameErrors ==
  {"TableNotFond", "DBErr", "ColNotFound", "ColTypeNotFound", "ColAlreadyExist",
   "NumberMismatch", "TypeErr"}

\* C20: a select, whatever it returns, writes no file and leaves the schema
\* and the entries as they were; so does every Table operation that returns
\* TableNotFound, the database's NotFound, ColNotFound, ColTypeNotFound,
\* ColAlreadyExist, NumberMismatch or a type error
C20_FailureFrame ==
  [][/\ call'.op = "select"
          => (call'.writes = {} /\ UNCHANGED <<dbDir, schemaFile, tableFile>>)
     /\ (call'.op \in TableOps /\ call'.res \in FrameErrors)
          => (call'.writes = {} /\ UNCHANGED <<dbDir, schemaFile, tableFile>>)
    ]_vars

\* C20: an add_col failed with NumberMismatch on a table with an entry, which
\* does not carry the column
C20_Witness ==
  /\ call.op = "add_col" /\ call.res = "NumberMismatch" /\ call.col = "b"
  /\ Len(tableFile.entries) >= 1
  /\ \A i \in 1..Len(tableFile.entries) : ~contains_key(tableFile.entries[i], "b")

====
